---- MODULE Spec2Model ----
(***************************************************************************)
(* SysCleanX: the scan/clean accounting engine (SystemScanner,             *)
(* SystemCleaner) over a small file system and registry.                   *)
(*                                                                         *)
(* A path is a sequence of names; the file system maps every path of the   *)
(* universe to an entry (absent, regular file with a size, directory, or   *)
(* symbolic link whose target lies outside the universe).                  *)
(***************************************************************************)
EXTENDS Integers, Sequences, FiniteSets, TLC

VARIABLES
    fs,          \* path -> entry
    denied,      \* paths whose stat / listing fails with PermissionError
    ext,         \* number of external mutations made during the running call
    s_pc,        \* scan_directory_safely: position of the call
    s_path,      \* scan_directory_safely: directory_path
    s_stack,     \* os.walk(topdown=False): frames [dir, files, subs]
    s_cur,       \* file_path of the current iteration of the inner loop
    s_total,     \* <<total_size, file_count>>
    s_ret,       \* the returned tuple <<size, count>>
    s_counted,   \* history: file paths the loop has added to the totals
    fs0,         \* history: the file system when the call began
    denied0,     \* history: the denied paths when the call began
    touched,     \* history: paths mutated by other processes during the call
    reg,         \* the RunMRU key of HKEY_CURRENT_USER
    c_pc,        \* clean_directory_safely: position of the call
    c_path,      \* clean_directory_safely: path
    c_initial,   \* <<initial_size, initial_count>>
    c_final,     \* <<final_size, final_count>>
    c_ret,       \* the returned tuple <<files deleted, bytes freed>>
    c_attempted, \* history: os.remove or shutil.rmtree has been called
    c_keep,      \* history: the entries the deletion failed to remove
    l_pc,        \* clean_location: position of the call
    l_paths,     \* clean_location: location_paths
    l_i,         \* index of path_pattern in location_paths
    l_mode,      \* which branch of the dispatch is iterating
    l_pending,   \* targets the running loop has still to visit
    l_acc,       \* <<deleted, freed>> of the current path_pattern
    l_total,     \* <<files_deleted, bytes_freed>>
    l_ret,       \* the returned tuple
    r_calls,     \* clear_run_history: calls made so far
    r_prev,      \* history: the RunMRU key before the last call
    r_ret,       \* the tuple the last call returned
    r_raised,    \* an exception left the last call
    uninst,      \* the Uninstall keys of HKEY_CURRENT_USER and HKEY_LOCAL_MACHINE
    a_pc,        \* get_installed_apps: position of the call
    a_ret,       \* the returned list
    k_pc,        \* scan_location_size: position of the call
    k_paths,     \* scan_location_size: location_paths
    k_ret,       \* the returned tuple <<size, count>>
    p_pc,        \* scan_all_locations: position of the call
    p_cb,        \* a progress_callback was supplied
    p_i,         \* the index i of enumerate(self.temp_locations.items())
    p_log,       \* the calls progress_callback has received, in order
    p_results,   \* results: name -> [size, count, size_mb]
    p_fault,     \* the category whose processing raises an unexpected exception
    is_scanning,        \* SysCleanXApp.is_scanning
    is_cleaning,        \* SysCleanXApp.is_cleaning
    scan_results,       \* SysCleanXApp.scan_results
    cb_var,             \* checkboxes[option]["var"]
    cb_widget,          \* checkboxes[option]["widget"]: [state, text]
    status_label,       \* the text of status_label
    action_button,      \* [state, text]
    uninstaller_button, \* state
    tk_queue,           \* the callbacks root.after(0, ...) has scheduled, in order
    w_scan,             \* the thread running scan_thread: its position
    w_clean,            \* the thread running clean_thread: its position
    t_items,            \* clean_thread: the selected_items still to clean
    t_total,            \* clean_thread: <<cleaned_files, bytes_freed>>
    t_done,             \* history: the items clean_location has returned for
    u_faults,           \* history: unexpected exceptions raised so far
    u_toggles,          \* history: clicks on checkboxes so far
    frame,              \* the frame shown: cleaner_frame or uninstaller_frame
    is_populating_apps, \* SysCleanXApp.is_populating_apps
    back_button,        \* state
    apps_frame,         \* what apps_frame shows
    w_apps              \* the thread running apps_thread_worker

fsVars    == <<fs, denied, ext, fs0, denied0, touched>>
scanVars  == <<s_pc, s_path, s_stack, s_cur, s_total, s_ret, s_counted>>
cleanVars == <<c_pc, c_path, c_initial, c_final, c_ret, c_attempted, c_keep>>
locVars   == <<l_pc, l_paths, l_i, l_mode, l_pending, l_acc, l_total, l_ret>>
regHist   == <<r_calls, r_prev, r_ret, r_raised>>
appsUi    == <<frame, is_populating_apps, back_button, apps_frame, w_apps>>
appVars   == <<uninst, a_pc, a_ret, appsUi>>
catVars   == <<k_pc, k_paths, k_ret>>
allVars   == <<p_pc, p_cb, p_i, p_log, p_results, p_fault>>
uiVars    == <<is_scanning, is_cleaning, scan_results, cb_var, cb_widget, status_label,
               action_button, uninstaller_button, tk_queue, w_scan, w_clean,
               t_items, t_total, t_done, u_faults, u_toggles>>
moreVars  == <<allVars, uiVars>>
restVars  == <<regHist, appVars, catVars, moreVars>>
vars      == <<fsVars, reg, scanVars, cleanVars, locVars, restVars>>

----------------------------------------------------------------------------
(* Bounds *)

\* largest size of a regular file, in bytes
MaxSize == 1
\* external mutations (other processes) during one call
MaxExt == 1
\* longest MRUList, and number of value names of the RunMRU key
MaxList == 3
\* calls of clear_run_history in a row
MaxCalls == 2
\* subkeys of the Uninstall key of HKEY_CURRENT_USER
MaxSubkeys == 2
\* unexpected exceptions (no OSError) raised while the application runs
MaxFaults == 1
\* clicks on checkboxes while the application runs
MaxToggles == 1

----------------------------------------------------------------------------
(* The file system *)

T  == <<"T">>
Ta == <<"T", "a">>
Tb == <<"T", "b">>
Ts == <<"T", "s">>
Tc == <<"T", "s", "c">>

\* a plain target directory, with a file, a file or link, and a subdirectory
TPaths == {T, Ta, Tb, Ts, Tc}

Fr == <<"Firefox", "Profiles">>
Fp == <<"Firefox", "Profiles", "p1">>
Fo == <<"Firefox", "Profiles", "p1", "o">>
Fc == <<"Firefox", "Profiles", "p1", "cache2">>
Fx == <<"Firefox", "Profiles", "p1", "cache2", "x">>
Fq == <<"Firefox", "Profiles", "p2">>
Fd == <<"Firefox", "Profiles", "p2", "cache2">>
Fy == <<"Firefox", "Profiles", "p2", "cache2", "y">>

\* a browser-profile root with two profiles, their caches and a file outside
FPaths == {Fr, Fp, Fo, Fc, Fx, Fq, Fd, Fy}

E  == <<"E">>
E1 == <<"E", "t_1">>
E2 == <<"E", "t_2">>
Ex == <<"E", "x">>

\* a directory with two files a wildcard pattern matches and one it does not
EPaths == {E, E1, E2, Ex}

Mr  == <<"Mozilla", "Firefox", "Profiles">>
M1  == <<"Mozilla", "Firefox", "Profiles", "m1">>
M1o == <<"Mozilla", "Firefox", "Profiles", "m1", "o">>
M1c == <<"Mozilla", "Firefox", "Profiles", "m1", "cache2">>
M1a == <<"Mozilla", "Firefox", "Profiles", "m1", "cache2", "a">>
M1b == <<"Mozilla", "Firefox", "Profiles", "m1", "cache2", "b">>
M2  == <<"Mozilla", "Firefox", "Profiles", "m2">>
M2c == <<"Mozilla", "Firefox", "Profiles", "m2", "cache2">>
M2a == <<"Mozilla", "Firefox", "Profiles", "m2", "cache2", "a">>
M2b == <<"Mozilla", "Firefox", "Profiles", "m2", "cache2", "b">>
M3  == <<"Mozilla", "Firefox", "Profiles", "m3">>
M3c == <<"Mozilla", "Firefox", "Profiles", "m3", "cache2">>
M3a == <<"Mozilla", "Firefox", "Profiles", "m3", "cache2", "a">>
M3b == <<"Mozilla", "Firefox", "Profiles", "m3", "cache2", "b">>

\* a browser-profile root below another directory, with three profiles, two
\* cache files each and a file outside the cache
MPaths == {Mr, M1, M1o, M1c, M1a, M1b, M2, M2c, M2a, M2b, M3, M3c, M3a, M3b}

\* the files of these caches
MCacheFiles == {M1a, M1b, M2a, M2b, M3a, M3b}

Paths == TPaths \cup FPaths \cup EPaths \cup MPaths

\* every path after its parent
PathOrder == <<T, Ta, Tb, Ts, Tc, Fr, Fp, Fo, Fc, Fx, Fq, Fd, Fy, E, E1, E2, Ex,
               Mr, M1, M1o, M1c, M1a, M1b, M2, M2c, M2a, M2b, M3, M3c, M3a, M3b>>

Absent == [kind |-> "absent", size |-> 0, to |-> "none"]
Dir    == [kind |-> "dir", size |-> 0, to |-> "none"]
File(n) == [kind |-> "file", size |-> n, to |-> "none"]
Link(t) == [kind |-> "link", size |-> 0, to |-> t]

Files == {File(n) : n \in 0..MaxSize}
Links == {Link(t) : t \in {"none", "file", "dir"}}
Entries == Files \cup Links \cup {Dir}

\* what each path of the universe may be when it is present
Allowed(p) ==
    CASE p = T  -> Files \cup {Dir}
      [] p = Ta -> Files
      [] p = Tb -> Files \cup Links
      [] p = Ts -> {Dir}
      [] p = Tc -> Files
      [] p \in {Fo, Fx, Fy, E1, E2, Ex, M1o} -> Files
      [] p \in MCacheFiles -> {File(10), File(20)}
      [] OTHER  -> {Dir}

Parent(p) == SubSeq(p, 1, Len(p) - 1)

IsUnder(q, p) == Len(q) > Len(p) /\ SubSeq(q, 1, Len(p)) = p

Within(q, p) == q = p \/ IsUnder(q, p)

Children(p) == {q \in Paths : Len(q) = Len(p) + 1 /\ IsUnder(q, p)}

WellFormed(f) ==
    \A p \in DOMAIN f :
        /\ f[p] \in Allowed(p) \cup {Absent}
        /\ (f[p] # Absent /\ Parent(p) \in DOMAIN f) => f[Parent(p)].kind = "dir"

NoFiles == [p \in Paths |-> Absent]

\* what p can be in a file system that is f above p
Options(f, p) ==
    IF Parent(p) \in Paths /\ f[Parent(p)].kind # "dir"
    THEN {Absent}
    ELSE Allowed(p) \cup {Absent}

RECURSIVE Populate(_, _)
Populate(FS, ps) ==
    IF ps = <<>> THEN FS
    ELSE Populate(UNION {{[f EXCEPT ![Head(ps)] = e] : e \in Options(f, Head(ps))} : f \in FS},
                  Tail(ps))

\* the file systems in which only paths of S are present
FileSystems(S) ==
    LET InS(p) == p \in S IN Populate({NoFiles}, SelectSeq(PathOrder, InS))

----------------------------------------------------------------------------
(* os.path primitives; every one of them answers False when stat fails *)

At(f, p) == IF p \in Paths THEN f[p] ELSE Absent

exists(f, d, p) ==
    /\ p \notin d
    /\ \/ At(f, p).kind \in {"file", "dir"}
       \/ At(f, p).kind = "link" /\ At(f, p).to # "none"

isfile(f, d, p) ==
    /\ p \notin d
    /\ \/ At(f, p).kind = "file"
       \/ At(f, p).kind = "link" /\ At(f, p).to = "file"

isdir(f, d, p) ==
    /\ p \notin d
    /\ \/ At(f, p).kind = "dir"
       \/ At(f, p).kind = "link" /\ At(f, p).to = "dir"

islink(f, d, p) == p \notin d /\ At(f, p).kind = "link"

\* os.path.lexists, as glob.glob uses it
lexists(f, d, p) == p \notin d /\ At(f, p) # Absent

\* os.path.getsize: the exception it raises, or "ok"
getsizeError(f, d, p) ==
    IF p \in d THEN "PermissionError"
    ELSE IF At(f, p).kind = "absent" \/ (At(f, p).kind = "link" /\ At(f, p).to = "none")
         THEN "FileNotFoundError"
         ELSE "ok"

getsize(f, p) == At(f, p).size

\* exception classes: every error of the file system is an OSError
IsInstance(exc, classes) ==
    \/ exc \in classes
    \/ "OSError" \in classes /\ exc \in {"FileNotFoundError", "PermissionError"}

----------------------------------------------------------------------------
(* SystemScanner.scan_directory_safely, as one computation on a file       *)
(* system that nothing else changes meanwhile                              *)

RECURSIVE SumSize(_, _)
SumSize(f, S) ==
    IF S = {} THEN 0
    ELSE LET q == CHOOSE x \in S : TRUE IN getsize(f, q) + SumSize(f, S \ {q})

\* os.scandir(top) succeeds
ScandirOK(f, d, p) == p \notin d /\ At(f, p).kind = "dir"

\* DirEntry.is_dir() follows symbolic links
entry_is_dir(f, q) == f[q].kind = "dir" \/ (f[q].kind = "link" /\ f[q].to = "dir")

\* the `files` os.walk yields for directory p
nondirs(f, p) == {q \in Children(p) : f[q] # Absent /\ ~entry_is_dir(f, q)}

\* the subdirectories os.walk descends into (followlinks is False)
walk_dirs(f, p) == {q \in Children(p) : f[q].kind = "dir"}

RECURSIVE Walked(_, _, _)
Walked(f, d, p) ==
    IF ~ScandirOK(f, d, p) THEN {}
    ELSE {p} \cup UNION {Walked(f, d, q) : q \in walk_dirs(f, p)}

\* line 98: the file is counted when it exists and is no symbolic link
CountsEntry_FollowLinks(f, d, q) == exists(f, d, q)

CountsEntry(f, d, q) == exists(f, d, q) /\ ~islink(f, d, q)

CountedFiles(f, d, p) ==
    {q \in UNION {nondirs(f, r) : r \in Walked(f, d, p)} : CountsEntry(f, d, q)}

scan_directory_safely(f, d, p) ==
    IF ~exists(f, d, p) THEN <<0, 0>>
    ELSE IF isfile(f, d, p)
         THEN IF getsizeError(f, d, p) = "ok" THEN <<getsize(f, p), 1>> ELSE <<0, 0>>
         ELSE <<SumSize(f, CountedFiles(f, d, p)), Cardinality(CountedFiles(f, d, p))>>

----------------------------------------------------------------------------
(* Other processes: creations, writes, deletions and permission changes    *)
(* while a call is running                                                 *)

CallRunning ==
    \/ s_pc \notin {"idle", "done", "raised"}
    \/ l_pc \notin {"idle", "done"}

ExtCreate(p, e) ==
    /\ CallRunning /\ ext < MaxExt
    /\ fs[p] = Absent /\ e \in Allowed(p)
    /\ Parent(p) \in Paths => fs[Parent(p)].kind = "dir"
    /\ fs' = [fs EXCEPT ![p] = e]
    /\ touched' = touched \cup {p}
    /\ ext' = ext + 1
    /\ UNCHANGED <<denied, fs0, denied0, reg, scanVars, cleanVars, locVars, restVars>>

ExtDelete(p) ==
    /\ CallRunning /\ ext < MaxExt
    /\ fs[p] # Absent
    /\ fs' = [q \in Paths |-> IF Within(q, p) THEN Absent ELSE fs[q]]
    /\ denied' = {q \in denied : ~Within(q, p)}
    /\ touched' = touched \cup {q \in Paths : Within(q, p)}
    /\ ext' = ext + 1
    /\ UNCHANGED <<fs0, denied0, reg, scanVars, cleanVars, locVars, restVars>>

ExtWrite(p, n) ==
    /\ CallRunning /\ ext < MaxExt
    /\ fs[p].kind = "file" /\ n \in 0..MaxSize /\ n # fs[p].size
    /\ fs' = [fs EXCEPT ![p] = File(n)]
    /\ touched' = touched \cup {p}
    /\ ext' = ext + 1
    /\ UNCHANGED <<denied, fs0, denied0, reg, scanVars, cleanVars, locVars, restVars>>

ExtDeny(p) ==
    /\ CallRunning /\ ext < MaxExt
    /\ fs[p] # Absent /\ p \notin denied
    /\ denied' = denied \cup {p}
    /\ touched' = touched \cup {q \in Paths : Within(q, p)}
    /\ ext' = ext + 1
    /\ UNCHANGED <<fs, fs0, denied0, reg, scanVars, cleanVars, locVars, restVars>>

----------------------------------------------------------------------------
(* SystemScanner.scan_directory_safely, step by step, so that other        *)
(* processes can act between two of its system calls                       *)

\* the two handlers of the function
InnerCatches_OnlyNotFound(exc) == IsInstance(exc, {"FileNotFoundError"})

InnerCatches(exc) == IsInstance(exc, {"OSError", "FileNotFoundError"})

OuterCatches(exc) == IsInstance(exc, {"OSError", "PermissionError"})

notScan == <<reg, cleanVars, locVars, restVars>>

\* line 88
ScanExists ==
    /\ s_pc = "exists"
    /\ IF ~exists(fs, denied, s_path)
       THEN s_pc' = "done" /\ s_ret' = <<0, 0>>
       ELSE s_pc' = "isfile" /\ UNCHANGED s_ret
    /\ UNCHANGED <<fsVars, notScan, s_path, s_stack, s_cur, s_total, s_counted>>

\* line 90, and the call of os.walk of line 93
ScanIsFile ==
    /\ s_pc = "isfile"
    /\ IF isfile(fs, denied, s_path)
       THEN s_pc' = "getsize" /\ UNCHANGED s_stack
       ELSE /\ s_pc' = "walk"
            /\ s_stack' = <<[dir |-> <<>>, files |-> {}, subs |-> {s_path}]>>
    /\ UNCHANGED <<fsVars, notScan, s_path, s_cur, s_total, s_ret, s_counted>>

\* line 91
ScanGetsize ==
    /\ s_pc = "getsize"
    /\ LET exc == getsizeError(fs, denied, s_path) IN
       IF exc = "ok"
       THEN /\ s_pc' = "done"
            /\ s_ret' = <<getsize(fs, s_path), 1>>
            /\ s_counted' = {s_path}
       ELSE /\ s_pc' = IF OuterCatches(exc) THEN "done" ELSE "raised"
            /\ s_ret' = s_total
            /\ UNCHANGED s_counted
    /\ UNCHANGED <<fsVars, notScan, s_path, s_stack, s_cur, s_total>>

\* os.walk lists the next directory (its errors are ignored: onerror is None)
WalkDescend ==
    /\ s_pc = "walk" /\ s_stack # <<>>
    /\ \E q \in Head(s_stack).subs :
          LET rest == [Head(s_stack) EXCEPT !.subs = @ \ {q}] IN
          s_stack' =
              IF ScandirOK(fs, denied, q)
              THEN <<[dir |-> q, files |-> nondirs(fs, q), subs |-> walk_dirs(fs, q)], rest>>
                       \o Tail(s_stack)
              ELSE <<rest>> \o Tail(s_stack)
    /\ UNCHANGED <<fsVars, notScan, s_pc, s_path, s_cur, s_total, s_ret, s_counted>>

\* lines 93-96: the next file of the directory os.walk has yielded
WalkYield ==
    /\ s_pc = "walk" /\ s_stack # <<>>
    /\ Head(s_stack).subs = {}
    /\ \E q \in Head(s_stack).files :
          /\ s_cur' = q
          /\ s_stack' = <<[Head(s_stack) EXCEPT !.files = @ \ {q}]>> \o Tail(s_stack)
    /\ s_pc' = "check"
    /\ UNCHANGED <<fsVars, notScan, s_path, s_total, s_ret, s_counted>>

\* the directory is exhausted; after the last one, line 107
WalkPop ==
    /\ s_pc = "walk" /\ s_stack # <<>>
    /\ Head(s_stack).subs = {} /\ Head(s_stack).files = {}
    /\ s_stack' = Tail(s_stack)
    /\ IF Tail(s_stack) = <<>>
       THEN s_pc' = "done" /\ s_ret' = s_total
       ELSE UNCHANGED <<s_pc, s_ret>>
    /\ UNCHANGED <<fsVars, notScan, s_path, s_cur, s_total, s_counted>>

\* line 98
FileCheck ==
    /\ s_pc = "check"
    /\ s_pc' = IF CountsEntry(fs, denied, s_cur) THEN "size" ELSE "walk"
    /\ UNCHANGED <<fsVars, notScan, s_path, s_stack, s_cur, s_total, s_ret, s_counted>>

\* lines 99-103
FileSize ==
    /\ s_pc = "size"
    /\ LET exc == getsizeError(fs, denied, s_cur) IN
       IF exc = "ok"
       THEN /\ s_total' = <<s_total[1] + getsize(fs, s_cur), s_total[2] + 1>>
            /\ s_counted' = s_counted \cup {s_cur}
            /\ s_pc' = "walk"
            /\ UNCHANGED s_ret
       ELSE /\ UNCHANGED <<s_total, s_counted>>
            /\ IF InnerCatches(exc) THEN s_pc' = "walk" /\ UNCHANGED s_ret
               ELSE IF OuterCatches(exc) THEN s_pc' = "done" /\ s_ret' = s_total
               ELSE s_pc' = "raised" /\ UNCHANGED s_ret
    /\ UNCHANGED <<fsVars, notScan, s_path, s_stack, s_cur>>

----------------------------------------------------------------------------
(* The registry: the RunMRU key of HKEY_CURRENT_USER                       *)
(*   present     the key exists                                            *)
(*   access      OpenKey with KEY_ALL_ACCESS is granted                    *)
(*   hasList     the value MRUList exists                                  *)
(*   list        MRUList, one value name per character                     *)
(*   values      the names of the stored values                            *)
(*   locked      stored values whose deletion is refused                   *)
(*   listLocked  writing MRUList is refused                                *)

\* the registry when the RunMRU key does not exist
NoKey ==
    [present |-> FALSE, access |-> FALSE, hasList |-> FALSE, list |-> <<>>,
     values |-> {}, locked |-> {}, listLocked |-> FALSE]

Range(q) == {q[i] : i \in DOMAIN q}

\* line 278
OpenKeyError(r) ==
    IF ~r.present THEN "FileNotFoundError"
    ELSE IF ~r.access THEN "PermissionError" ELSE "ok"

\* line 279
QueryListError(r) == IF ~r.hasList THEN "FileNotFoundError" ELSE "ok"

\* line 282
DeleteValueError(r, v) ==
    IF v \notin r.values THEN "FileNotFoundError"
    ELSE IF v \in r.locked THEN "PermissionError" ELSE "ok"

\* line 283: except FileNotFoundError: continue
DeleteCatches_All(exc) == TRUE

DeleteCatches(exc) == IsInstance(exc, {"FileNotFoundError"})

\* lines 280-284: the registry after the loop, and the exception that ended it
RECURSIVE DeleteLoop(_, _)
DeleteLoop(r, names) ==
    IF names = <<>> THEN [reg |-> r, exc |-> "ok"]
    ELSE LET exc == DeleteValueError(r, Head(names)) IN
         IF exc = "ok"
         THEN DeleteLoop([r EXCEPT !.values = @ \ {Head(names)}], Tail(names))
         ELSE IF DeleteCatches(exc) THEN DeleteLoop(r, Tail(names))
         ELSE [reg |-> r, exc |-> exc]

\* line 285
SetListError(r) == IF r.listLocked THEN "PermissionError" ELSE "ok"

ResetList_Forgotten(r) == r

ResetList(r) == [r EXCEPT !.list = <<>>]

\* line 286
CleanNominalSize == 1024

NominalSuccess == <<1, CleanNominalSize>>

\* line 287: except Exception
OuterRegCatches(exc) == TRUE

\* SystemCleaner.clear_run_history: the registry after the call, the returned
\* tuple, and whether an exception left the function
clear_run_history(r) ==
    LET fail(r2, exc) ==
            [reg |-> r2, ret |-> <<0, 0>>, raised |-> ~OuterRegCatches(exc)]
    IN  IF OpenKeyError(r) # "ok" THEN fail(r, OpenKeyError(r))
        ELSE IF QueryListError(r) # "ok" THEN fail(r, QueryListError(r))
        ELSE LET d == DeleteLoop(r, r.list) IN
             IF d.exc # "ok" THEN fail(d.reg, d.exc)
             ELSE IF SetListError(d.reg) # "ok" THEN fail(d.reg, SetListError(d.reg))
             ELSE [reg |-> ResetList(d.reg), ret |-> NominalSuccess, raised |-> FALSE]

----------------------------------------------------------------------------
(* SystemCleaner.clean_directory_safely, with other processes acting       *)
(* between its measurements and its deletion                               *)

Max(a, b) == IF a >= b THEN a ELSE b

\* shutil.rmtree(path, ignore_errors=True): everything below path goes, but the
\* entries of `keep`, whose deletion fails, and the directories holding them
rmtree_TopLevelOnly(f, p, keep) ==
    [q \in Paths |->
        IF (q \in Children(p) /\ f[q].kind # "dir" /\ q \notin keep) THEN Absent ELSE f[q]]

rmtree(f, p, keep) ==
    [q \in Paths |->
        IF Within(q, p) /\ ~(\E k \in keep : Within(k, q)) THEN Absent ELSE f[q]]

\* line 233
NothingToClean_Never(initial) == FALSE

NothingToClean(initial) == initial[2] = 0

\* line 244
CleanResult_NoClamp(initial, final) == <<initial[2] - final[2], initial[1] - final[1]>>

CleanResult(initial, final) ==
    <<Max(0, initial[2] - final[2]), Max(0, initial[1] - final[1])>>

notClean == <<reg, scanVars, locVars, restVars>>

\* line 231
CleanExists ==
    /\ c_pc = "exists"
    /\ IF ~exists(fs, denied, c_path)
       THEN c_pc' = "done" /\ c_ret' = <<0, 0>>
       ELSE c_pc' = "measure" /\ UNCHANGED c_ret
    /\ UNCHANGED <<fsVars, notClean, c_path, c_initial, c_final, c_attempted, c_keep>>

\* lines 232-233
CleanMeasure ==
    /\ c_pc = "measure"
    /\ c_initial' = scan_directory_safely(fs, denied, c_path)
    /\ IF NothingToClean(c_initial')
       THEN c_pc' = "done" /\ c_ret' = <<0, 0>>
       ELSE c_pc' = "delete" /\ UNCHANGED c_ret
    /\ UNCHANGED <<fsVars, notClean, c_path, c_final, c_attempted, c_keep>>

\* lines 234-242: os.remove may fail, shutil.rmtree may leave entries behind;
\* neither failure leaves the try block
CleanDelete ==
    /\ c_pc = "delete"
    /\ \E keep \in SUBSET {q \in Paths : Within(q, c_path) /\ fs[q] # Absent} :
          /\ IF isfile(fs, denied, c_path)
             THEN /\ keep \subseteq {c_path}
                  /\ fs' = IF keep = {} THEN [fs EXCEPT ![c_path] = Absent] ELSE fs
             ELSE IF isdir(fs, denied, c_path)
             THEN fs' = rmtree(fs, c_path, keep)
             ELSE keep = {} /\ fs' = fs
          /\ c_keep' = keep
    /\ denied' = {q \in denied : fs'[q] # Absent}
    /\ c_attempted' = TRUE
    /\ c_pc' = "remeasure"
    /\ UNCHANGED <<ext, fs0, denied0, touched, notClean, c_path, c_initial, c_final, c_ret>>

\* lines 243-244
CleanRemeasure ==
    /\ c_pc = "remeasure"
    /\ c_final' = scan_directory_safely(fs, denied, c_path)
    /\ c_ret' = CleanResult(c_initial, c_final')
    /\ c_pc' = "done"
    /\ UNCHANGED <<fsVars, notClean, c_path, c_initial, c_attempted, c_keep>>

----------------------------------------------------------------------------
(* SystemCleaner.clean_location and clean_firefox_cache                    *)

REGISTRY_CLEANUP == <<"REGISTRY_CLEANUP">>

\* lines 149, 304: "Firefox\\Profiles" in path_pattern
IsFirefoxMarker_Never(p) == FALSE

IsFirefoxMarker(p) ==
    \E i \in 1..(Len(p) - 1) : p[i] = "Firefox" /\ p[i + 1] = "Profiles"

\* the names a pattern component matches (fnmatch)
Matching(name) == IF name = "t_*" THEN {"t_1", "t_2"} ELSE {name}

has_magic(p) == p # <<>> /\ p[Len(p)] = "t_*"

\* glob.glob(path_pattern)
glob(f, d, pat) ==
    IF has_magic(pat)
    THEN IF ScandirOK(f, d, Parent(pat))
         THEN {q \in Children(Parent(pat)) :
                  f[q] # Absent /\ q[Len(q)] \in Matching(pat[Len(pat)])}
         ELSE {}
    ELSE IF lexists(f, d, pat) THEN {pat} ELSE {}

\* os.listdir(firefox_profiles_dir), joined with 'cache2' (lines 259-260)
cache_dirs(f, p) == {Append(q, "cache2") : q \in {c \in Children(p) : f[c] # Absent}}

notLoc == <<scanVars, restVars>>

\* lines 301-308: the dispatch on path_pattern
LocDispatch ==
    /\ l_pc = "loop" /\ l_i <= Len(l_paths)
    /\ LET pat == l_paths[l_i] IN
       IF pat = REGISTRY_CLEANUP
       THEN /\ reg' = clear_run_history(reg).reg
            /\ l_acc' = clear_run_history(reg).ret
            /\ l_pc' = IF clear_run_history(reg).raised THEN "raised" ELSE "sum"
            /\ UNCHANGED <<l_mode, l_pending>>
       ELSE IF IsFirefoxMarker(pat)
       THEN /\ l_acc' = <<0, 0>>
            /\ l_mode' = "firefox"
            /\ IF exists(fs, denied, pat) /\ ScandirOK(fs, denied, pat)
               THEN l_pending' = cache_dirs(fs, pat) /\ l_pc' = "targets"
               ELSE l_pending' = {} /\ l_pc' = "sum"
            /\ UNCHANGED reg
       ELSE /\ l_acc' = <<0, 0>>
            /\ l_mode' = "glob"
            /\ l_pending' = glob(fs, denied, pat)
            /\ l_pc' = "targets"
            /\ UNCHANGED reg
    /\ UNCHANGED <<fsVars, notLoc, cleanVars, l_paths, l_i, l_total, l_ret>>

\* lines 261-262 and 308-309: the next target; clean_directory_safely is called
LocTarget ==
    /\ l_pc = "targets"
    /\ \E t \in l_pending :
          /\ l_pending' = l_pending \ {t}
          /\ IF l_mode = "firefox" /\ ~isdir(fs, denied, t)
             THEN UNCHANGED <<l_pc, cleanVars, fs0, denied0, touched>>
             ELSE /\ l_pc' = "call"
                  /\ c_pc' = "exists" /\ c_path' = t
                  /\ c_attempted' = FALSE /\ c_keep' = {}
                  /\ fs0' = fs /\ denied0' = denied /\ touched' = {}
                  /\ UNCHANGED <<c_initial, c_final, c_ret>>
    /\ UNCHANGED <<fs, denied, ext, reg, notLoc, l_paths, l_i, l_mode, l_acc, l_total, l_ret>>

\* lines 263-264 and 310-311: the call has returned
LocCollect ==
    /\ l_pc = "call" /\ c_pc = "done"
    /\ l_acc' = <<l_acc[1] + c_ret[1], l_acc[2] + c_ret[2]>>
    /\ c_pc' = "idle" /\ c_path' = T
    /\ c_initial' = <<0, 0>> /\ c_final' = <<0, 0>> /\ c_ret' = <<0, 0>>
    /\ c_attempted' = FALSE /\ c_keep' = {}
    /\ fs0' = fs /\ denied0' = denied /\ touched' = {}
    /\ l_pc' = "targets"
    /\ UNCHANGED <<fs, denied, ext, reg, notLoc, l_paths, l_i, l_mode, l_pending, l_total, l_ret>>

\* lines 312-313
LocSum ==
    /\ \/ l_pc = "targets" /\ l_pending = {}
       \/ l_pc = "sum"
    /\ l_total' = <<l_total[1] + l_acc[1], l_total[2] + l_acc[2]>>
    /\ l_i' = l_i + 1
    /\ l_pc' = "loop"
    /\ UNCHANGED <<fsVars, reg, notLoc, cleanVars, l_paths, l_mode, l_pending, l_acc, l_ret>>

\* line 314
LocReturn ==
    /\ l_pc = "loop" /\ l_i > Len(l_paths)
    /\ l_ret' = l_total
    /\ l_pc' = "done"
    /\ UNCHANGED <<fsVars, reg, notLoc, cleanVars, l_paths, l_i, l_mode, l_pending, l_acc, l_total>>

\* an Uninstall key that does not exist
NoUninstall == [present |-> FALSE, access |-> FALSE, subkeys |-> <<>>]

CleanIdle ==
    /\ c_pc = "idle" /\ c_path = T
    /\ c_initial = <<0, 0>> /\ c_final = <<0, 0>> /\ c_ret = <<0, 0>>
    /\ c_attempted = FALSE /\ c_keep = {}
    /\ l_pc = "idle" /\ l_paths = <<>> /\ l_i = 1 /\ l_mode = "none"
    /\ l_pending = {} /\ l_acc = <<0, 0>> /\ l_total = <<0, 0>> /\ l_ret = <<0, 0>>

AllIdle ==
    /\ p_pc = "idle" /\ p_cb = FALSE /\ p_i = 0 /\ p_log = <<>>
    /\ p_results = <<>> /\ p_fault = "none"

\* the application is not constructed
UiIdle ==
    /\ is_scanning = FALSE /\ is_cleaning = FALSE /\ scan_results = <<>>
    /\ cb_var = <<>> /\ cb_widget = <<>> /\ status_label = <<>>
    /\ action_button = <<>> /\ uninstaller_button = "normal"
    /\ tk_queue = <<>> /\ w_scan = "none" /\ w_clean = "none"
    /\ t_items = <<>> /\ t_total = <<0, 0>> /\ t_done = <<>> /\ u_faults = 0
    /\ u_toggles = 0
    /\ frame = "cleaner" /\ is_populating_apps = FALSE /\ back_button = "normal"
    /\ apps_frame = <<>> /\ w_apps = "none"

MoreIdle == AllIdle /\ UiIdle

RestIdle ==
    /\ MoreIdle
    /\ r_calls = 0 /\ r_prev = NoKey /\ r_ret = <<0, 0>> /\ r_raised = FALSE
    /\ uninst = <<NoUninstall, NoUninstall>> /\ a_pc = "idle" /\ a_ret = <<>>
    /\ k_pc = "idle" /\ k_paths = <<>> /\ k_ret = <<0, 0>>

ScanIdle ==
    /\ s_pc = "idle" /\ s_path = T
    /\ s_stack = <<>> /\ s_cur = T
    /\ s_total = <<0, 0>> /\ s_ret = <<0, 0>> /\ s_counted = {}

InitScan ==
    /\ fs \in FileSystems(TPaths)
    /\ denied \in {{}} \cup {{p} : p \in {q \in Paths : fs[q] # Absent}}
    /\ ext = 0
    /\ fs0 = fs /\ denied0 = denied /\ touched = {}
    /\ reg = NoKey
    /\ s_pc = "exists" /\ s_path = T
    /\ s_stack = <<>> /\ s_cur = T
    /\ s_total = <<0, 0>> /\ s_ret = <<0, 0>> /\ s_counted = {}
    /\ CleanIdle
    /\ RestIdle

\* what other processes do to the paths of S while a call is running
External(S) ==
    \/ \E p \in S, e \in Entries : ExtCreate(p, e)
    \/ \E p \in S : ExtDelete(p)
    \/ \E p \in S, n \in 0..MaxSize : ExtWrite(p, n)
    \/ \E p \in S : ExtDeny(p)

NextScan ==
    \/ ScanExists \/ ScanIsFile \/ ScanGetsize
    \/ WalkDescend \/ WalkYield \/ WalkPop
    \/ FileCheck \/ FileSize
    \/ External(TPaths)

SpecScan == InitScan /\ [][NextScan]_vars

\* a RunMRU key that holds one command
OneCommand ==
    [present |-> TRUE, access |-> TRUE, hasList |-> TRUE, list |-> <<"a">>,
     values |-> {"a"}, locked |-> {}, listLocked |-> FALSE]

\* the lists clean_location is called with
LocationLists == {<<T>>, <<Ts, T>>, <<REGISTRY_CLEANUP, Fr>>}

\* the paths a call on these patterns meets here: the tree of T without T/a,
\* the browser-profile root with its first profile
CleanScope == {T, Tb, Ts, Tc, Fr, Fp, Fc, Fx}

ScopeOf(paths) == {q \in CleanScope : \E i \in DOMAIN paths : Within(q, paths[i])}

InitClean ==
    /\ l_paths \in LocationLists
    /\ fs \in FileSystems(ScopeOf(l_paths))
    /\ denied = {}
    /\ ext = 0
    /\ fs0 = fs /\ denied0 = denied /\ touched = {}
    /\ reg \in IF REGISTRY_CLEANUP \in Range(l_paths) THEN {NoKey, OneCommand} ELSE {NoKey}
    /\ ScanIdle
    /\ c_pc = "idle" /\ c_path = T
    /\ c_initial = <<0, 0>> /\ c_final = <<0, 0>> /\ c_ret = <<0, 0>>
    /\ c_attempted = FALSE /\ c_keep = {}
    /\ l_pc = "loop" /\ l_i = 1 /\ l_mode = "none"
    /\ l_pending = {} /\ l_acc = <<0, 0>> /\ l_total = <<0, 0>> /\ l_ret = <<0, 0>>
    /\ RestIdle

NextClean ==
    \/ LocDispatch \/ LocTarget \/ LocCollect \/ LocSum \/ LocReturn
    \/ CleanExists \/ CleanMeasure \/ CleanDelete \/ CleanRemeasure
    \/ External(ScopeOf(l_paths))

SpecClean == InitClean /\ [][NextClean]_vars

----------------------------------------------------------------------------
(* clear_run_history called on a RunMRU key, once or several times         *)

NamePool == <<"a", "b", "c", "d", "e">>

ValueNames == {NamePool[i] : i \in 1..MaxList}

MRULists == UNION {[1..n -> ValueNames] : n \in 0..MaxList}

\* the states of the RunMRU key
RunMRUKeys ==
    {NoKey} \cup
    {r \in [present : {TRUE}, access : BOOLEAN, hasList : BOOLEAN, list : MRULists,
            values : SUBSET ValueNames, locked : SUBSET ValueNames, listLocked : BOOLEAN] :
        /\ ~r.hasList => r.list = <<>>
        /\ r.locked \subseteq r.values
        /\ Cardinality(r.locked) <= 1}

FsIdle ==
    /\ fs = NoFiles /\ denied = {} /\ ext = 0
    /\ fs0 = fs /\ denied0 = {} /\ touched = {}

InitReg ==
    /\ reg \in RunMRUKeys
    /\ r_calls = 0 /\ r_prev = NoKey /\ r_ret = <<0, 0>> /\ r_raised = FALSE
    /\ uninst = <<NoUninstall, NoUninstall>> /\ a_pc = "idle" /\ a_ret = <<>>
    /\ k_pc = "idle" /\ k_paths = <<>> /\ k_ret = <<0, 0>>
    /\ FsIdle /\ ScanIdle /\ CleanIdle /\ MoreIdle

\* lines 269-288
ClearRunHistory ==
    /\ r_calls < MaxCalls
    /\ r_calls' = r_calls + 1
    /\ r_prev' = reg
    /\ reg' = clear_run_history(reg).reg
    /\ r_ret' = clear_run_history(reg).ret
    /\ r_raised' = clear_run_history(reg).raised
    /\ UNCHANGED <<fsVars, scanVars, cleanVars, locVars, appVars, catVars, moreVars>>

NextReg == ClearRunHistory

SpecReg == InitReg /\ [][NextReg]_vars

----------------------------------------------------------------------------
(* SystemScanner.get_installed_apps                                        *)
(* An Uninstall key: present, access (OpenKey is granted), subkeys; a      *)
(* subkey: readable, hasName/name (DisplayName), hasCmd/cmd                *)
(* (UninstallString). Strings are numbered in ascending order, 0 is "".    *)

\* lines 199-203: the exception reading a subkey raises, or "ok"
SubkeyError(e) ==
    IF ~e.readable THEN "PermissionError"
    ELSE IF ~e.hasName \/ ~e.hasCmd THEN "FileNotFoundError" ELSE "ok"

\* line 206
SubkeyCatches(exc) == IsInstance(exc, {"FileNotFoundError", "OSError"})

\* line 209
RootCatches(exc) == IsInstance(exc, {"FileNotFoundError"})

\* line 204: both strings are non-empty
BothGiven(e) == e.name # 0 /\ e.cmd # 0

\* lines 197-208: the entries appended for the subkeys, and the exception that
\* ended the loop
RECURSIVE SubkeyLoop(_)
SubkeyLoop(es) ==
    IF es = <<>> THEN [apps |-> <<>>, exc |-> "ok"]
    ELSE LET e == Head(es)
             exc == SubkeyError(e)
             rest == SubkeyLoop(Tail(es))
         IN  IF exc = "ok"
             THEN IF BothGiven(e)
                  THEN [rest EXCEPT !.apps = <<[name |-> e.name, command |-> e.cmd]>> \o @]
                  ELSE rest
             ELSE IF SubkeyCatches(exc) THEN rest
             ELSE [apps |-> <<>>, exc |-> exc]

\* line 196
OpenUninstallError(k) ==
    IF ~k.present THEN "FileNotFoundError"
    ELSE IF ~k.access THEN "PermissionError" ELSE "ok"

\* lines 194-211: the loop over the two roots
RECURSIVE RootLoop(_)
RootLoop(ks) ==
    IF ks = <<>> THEN [apps |-> <<>>, exc |-> "ok"]
    ELSE LET exc == OpenUninstallError(Head(ks)) IN
         IF exc # "ok"
         THEN IF RootCatches(exc) THEN RootLoop(Tail(ks))
              ELSE [apps |-> <<>>, exc |-> exc]
         ELSE LET here == SubkeyLoop(Head(ks).subkeys) IN
              IF here.exc # "ok" THEN [apps |-> <<>>, exc |-> here.exc]
              ELSE LET rest == RootLoop(Tail(ks)) IN
                   IF rest.exc # "ok" THEN rest
                   ELSE [apps |-> here.apps \o rest.apps, exc |-> "ok"]

\* sorted(.., key=lambda x: x['name']): a stable sort
Insert(x, sq) ==
    LET k == Cardinality({i \in DOMAIN sq : sq[i].name <= x.name}) IN
    SubSeq(sq, 1, k) \o <<x>> \o SubSeq(sq, k + 1, Len(sq))

RECURSIVE sorted(_)
sorted_Unsorted(sq) == sq

sorted(sq) ==
    IF sq = <<>> THEN <<>>
    ELSE Insert(sq[Len(sq)], sorted(SubSeq(sq, 1, Len(sq) - 1)))

get_installed_apps(u) ==
    LET r == RootLoop(u) IN
    IF r.exc # "ok" THEN [apps |-> <<>>, raised |-> TRUE]
    ELSE [apps |-> sorted(r.apps), raised |-> FALSE]

Subkeys ==
    {e \in [readable : BOOLEAN, hasName : BOOLEAN, name : {0, 1, 2},
            hasCmd : BOOLEAN, cmd : {0, 1}] :
        /\ ~e.hasName => e.name = 0
        /\ ~e.hasCmd => e.cmd = 0
        /\ ~e.readable => (~e.hasName /\ ~e.hasCmd)}

UninstallKeys(n) ==
    {NoUninstall, [present |-> TRUE, access |-> FALSE, subkeys |-> <<>>]} \cup
    {[present |-> TRUE, access |-> TRUE, subkeys |-> sk] :
        sk \in UNION {[1..m -> Subkeys] : m \in 0..n}}

InitApps ==
    /\ uninst \in UninstallKeys(MaxSubkeys) \X UninstallKeys(1)
    /\ a_pc = "call" /\ a_ret = <<>>
    /\ reg = NoKey
    /\ r_calls = 0 /\ r_prev = NoKey /\ r_ret = <<0, 0>> /\ r_raised = FALSE
    /\ k_pc = "idle" /\ k_paths = <<>> /\ k_ret = <<0, 0>>
    /\ FsIdle /\ ScanIdle /\ CleanIdle /\ MoreIdle

\* lines 184-212
GetInstalledApps ==
    /\ a_pc = "call"
    /\ a_pc' = IF get_installed_apps(uninst).raised THEN "raised" ELSE "done"
    /\ a_ret' = get_installed_apps(uninst).apps
    /\ UNCHANGED <<fsVars, reg, scanVars, cleanVars, locVars, regHist, uninst, catVars,
                   moreVars, appsUi>>

NextApps == GetInstalledApps

SpecApps == InitApps /\ [][NextApps]_vars

----------------------------------------------------------------------------
(* SystemScanner.scan_firefox_cache and scan_location_size                 *)

\* the sum of the measurements of the targets of S
RECURSIVE SumScan(_, _, _)
SumScan(f, d, S) ==
    IF S = {} THEN <<0, 0>>
    ELSE LET t == CHOOSE x \in S : TRUE
             m == scan_directory_safely(f, d, t)
             rest == SumScan(f, d, S \ {t})
         IN  <<m[1] + rest[1], m[2] + rest[2]>>

\* a scan of the root as one plain directory
scan_firefox_cache_WholeRoot(f, d, p) == scan_directory_safely(f, d, p)

\* lines 119-130
scan_firefox_cache(f, d, p) ==
    IF exists(f, d, p) /\ ScandirOK(f, d, p)
    THEN SumScan(f, d, {c \in cache_dirs(f, p) : isdir(f, d, c)})
    ELSE <<0, 0>>

\* half of what clear_run_history reports
ScanNominalSize_Half == CleanNominalSize \div 2

\* line 147
ScanNominalSize == 1024

\* lines 145-159: what one path_pattern adds to the totals
ScanPattern(f, d, pat) ==
    IF pat = REGISTRY_CLEANUP THEN <<ScanNominalSize, 1>>
    ELSE IF IsFirefoxMarker(pat) THEN scan_firefox_cache(f, d, pat)
    ELSE SumScan(f, d, glob(f, d, pat))

\* lines 142-160
RECURSIVE scan_location_size(_, _, _)
scan_location_size(f, d, paths) ==
    IF paths = <<>> THEN <<0, 0>>
    ELSE LET here == ScanPattern(f, d, Head(paths))
             rest == scan_location_size(f, d, Tail(paths))
         IN  <<here[1] + rest[1], here[2] + rest[2]>>

\* lines 39-74, on the paths of the universe: a category whose two entries name
\* the same directory, one with a plain directory and the profile root, the
\* registry sentinel, a wildcard pattern
temp_locations ==
    [c \in {"Clean User's Temp", "Clear Internet Cache", "Clear Desktop Run History",
            "Clean Thumbnail Cache"} |->
        CASE c = "Clean User's Temp"         -> <<T, T>>
          [] c = "Clear Internet Cache"      -> <<T, Fr>>
          [] c = "Clear Desktop Run History" -> <<REGISTRY_CLEANUP>>
          [] c = "Clean Thumbnail Cache"     -> <<<<"E", "t_*">>>>]

\* the paths below the patterns of a list
Reach(paths) ==
    {q \in Paths : \E i \in DOMAIN paths :
        Within(q, IF has_magic(paths[i]) THEN Parent(paths[i]) ELSE paths[i])}

InitCat ==
    /\ \E c \in DOMAIN temp_locations : k_paths = temp_locations[c]
    /\ k_pc = "call" /\ k_ret = <<0, 0>>
    /\ fs \in FileSystems(Reach(k_paths))
    /\ denied = {} /\ ext = 0
    /\ fs0 = fs /\ denied0 = {} /\ touched = {}
    /\ reg \in IF REGISTRY_CLEANUP \in Range(k_paths) THEN RunMRUKeys ELSE {NoKey}
    /\ r_calls = 0 /\ r_prev = reg /\ r_ret = <<0, 0>> /\ r_raised = FALSE
    /\ uninst = <<NoUninstall, NoUninstall>> /\ a_pc = "idle" /\ a_ret = <<>>
    /\ ScanIdle /\ CleanIdle /\ MoreIdle

\* lines 132-160
ScanLocation ==
    /\ k_pc = "call"
    /\ k_ret' = scan_location_size(fs, denied, k_paths)
    /\ k_pc' = "done"
    /\ UNCHANGED <<fsVars, reg, scanVars, cleanVars, locVars, regHist, appVars, k_paths,
                   moreVars>>

NextCat == ScanLocation

SpecCat == InitCat /\ [][NextCat]_vars

\* scan_location_size of the profiles root alone (lines 149-153); the root or
\* the cache directory of a profile may refuse access
InitFox ==
    /\ k_paths = <<Mr>>
    /\ k_pc = "call" /\ k_ret = <<0, 0>>
    /\ fs \in FileSystems(MPaths)
    /\ denied \in {{}, {Mr}, {M2c}} /\ ext = 0
    /\ fs0 = fs /\ denied0 = denied /\ touched = {}
    /\ reg = NoKey
    /\ r_calls = 0 /\ r_prev = reg /\ r_ret = <<0, 0>> /\ r_raised = FALSE
    /\ uninst = <<NoUninstall, NoUninstall>> /\ a_pc = "idle" /\ a_ret = <<>>
    /\ ScanIdle /\ CleanIdle /\ MoreIdle

NextFox == ScanLocation

SpecFox == InitFox /\ [][NextFox]_vars

----------------------------------------------------------------------------
(* scan_location_size, then clean_location on the same list                *)

\* the lists of the catalog, and two lists whose targets are nested
PairLists == {temp_locations[c] : c \in DOMAIN temp_locations} \cup {<<Ts, T>>, <<T, Ts>>}

\* the paths these lists reach: those clean_location is followed on, and the
\* directory of the wildcard pattern
PairScope(paths) ==
    ScopeOf(paths) \cup {q \in EPaths : \E i \in DOMAIN paths : has_magic(paths[i])}

InitPair ==
    /\ k_paths \in PairLists
    /\ k_pc = "call" /\ k_ret = <<0, 0>>
    /\ fs \in FileSystems(PairScope(k_paths))
    /\ denied \in {{}} \cup {{p} : p \in {q \in Paths : fs[q] # Absent}}
    /\ ext = 0
    /\ fs0 = fs /\ denied0 = denied /\ touched = {}
    /\ reg \in IF REGISTRY_CLEANUP \in Range(k_paths) THEN {NoKey, OneCommand} ELSE {NoKey}
    /\ r_calls = 0 /\ r_prev = reg /\ r_ret = <<0, 0>> /\ r_raised = FALSE
    /\ uninst = <<NoUninstall, NoUninstall>> /\ a_pc = "idle" /\ a_ret = <<>>
    /\ ScanIdle /\ CleanIdle /\ MoreIdle

\* clean_location is called with the list that has just been scanned
CleanAfterScan ==
    /\ k_pc = "done" /\ l_pc = "idle"
    /\ l_paths' = k_paths
    /\ l_pc' = "loop" /\ l_i' = 1
    /\ UNCHANGED <<fsVars, reg, scanVars, cleanVars, restVars, l_mode, l_pending, l_acc,
                   l_total, l_ret>>

NextPair ==
    \/ ScanLocation \/ CleanAfterScan
    \/ LocDispatch \/ LocTarget \/ LocCollect \/ LocSum \/ LocReturn
    \/ CleanExists \/ CleanMeasure \/ CleanDelete \/ CleanRemeasure

SpecPair == InitPair /\ [][NextPair]_vars

----------------------------------------------------------------------------
(* SystemScanner.scan_all_locations                                        *)

\* the order of self.temp_locations.items() (a dict keeps insertion order)
CatalogOrder ==
    <<"Clean User's Temp", "Clear Internet Cache", "Clear Desktop Run History",
      "Clean Thumbnail Cache">>

\* line 173
total_locations == Len(CatalogOrder)

\* a quotient of two integers, kept exact
Fraction_OneBased(i, total) == [num |-> i + 1, den |-> total]

\* line 176: i / total_locations
Fraction(i, total) == [num |-> i, den |-> total]

\* line 181: the literal 1.0
One == [num |-> 1, den |-> 1]

\* line 178: the entry stored for a category
ResultOf(m) ==
    [size |-> m[1], count |-> m[2], size_mb |-> [num |-> m[1], den |-> 1024 * 1024]]

notAll == <<fsVars, reg, scanVars, cleanVars, locVars, regHist, appVars, catVars>>

\* lines 175-176
NotifyStep ==
    /\ p_pc = "notify"
    /\ p_log' = IF p_cb
                THEN Append(p_log, [fraction |-> Fraction(p_i, total_locations),
                                    text |-> <<"Scanning: ", CatalogOrder[p_i + 1]>>])
                ELSE p_log
    /\ p_pc' = "scan"
    /\ UNCHANGED <<p_cb, p_i, p_results, p_fault, notAll>>

\* the callback does nothing but record the call
AllNotify == NotifyStep /\ UNCHANGED uiVars

\* lines 177-179, and the end of the loop; an exception that is no OSError
\* leaves scan_location_size and scan_all_locations
AllScan ==
    /\ p_pc = "scan"
    /\ LET name == CatalogOrder[p_i + 1] IN
       IF name = p_fault
       THEN /\ p_pc' = "raised" /\ p_fault' = "none"
            /\ UNCHANGED <<p_i, p_results>>
       ELSE /\ p_results' = (name :> ResultOf(scan_location_size(fs, denied, temp_locations[name])))
                                @@ p_results
            /\ p_i' = p_i + 1
            /\ p_pc' = IF p_i + 1 < total_locations THEN "notify" ELSE "final"
            /\ UNCHANGED p_fault
    /\ UNCHANGED <<p_cb, p_log, notAll, uiVars>>

\* lines 180-182
ReturnStep ==
    /\ p_pc = "final"
    /\ p_log' = IF p_cb
                THEN Append(p_log, [fraction |-> One, text |-> <<"Scan complete!">>])
                ELSE p_log
    /\ p_pc' = "done"
    /\ UNCHANGED <<p_cb, p_i, p_results, p_fault, notAll>>

AllReturn == ReturnStep /\ UNCHANGED uiVars

\* the paths the catalog is scanned on
AllScope == {T, Ta, Fr, Fp, Fc, Fx, E, E1, E2}

InitAll ==
    /\ fs \in FileSystems(AllScope)
    /\ denied = {} /\ ext = 0
    /\ fs0 = fs /\ denied0 = {} /\ touched = {}
    /\ reg \in {NoKey, OneCommand}
    /\ r_calls = 0 /\ r_prev = reg /\ r_ret = <<0, 0>> /\ r_raised = FALSE
    /\ uninst = <<NoUninstall, NoUninstall>> /\ a_pc = "idle" /\ a_ret = <<>>
    /\ k_pc = "idle" /\ k_paths = <<>> /\ k_ret = <<0, 0>>
    /\ ScanIdle /\ CleanIdle
    /\ p_pc = (IF total_locations > 0 THEN "notify" ELSE "final")
    /\ p_cb \in BOOLEAN /\ p_i = 0 /\ p_log = <<>> /\ p_results = <<>>
    /\ p_fault = "none"
    /\ UiIdle

NextAll == AllNotify \/ AllScan \/ AllReturn

SpecAll == InitAll /\ [][NextAll]_vars

----------------------------------------------------------------------------
(* SysCleanXApp: the cleaner frame, its worker threads and the callbacks   *)
(* they schedule on the main thread with root.after(0, ...)                *)

Categories == {CatalogOrder[i] : i \in DOMAIN CatalogOrder}

Button(state, text) == [state |-> state, text |-> text]

Schedule(fn, arg) == Append(tk_queue, [fn |-> fn, arg |-> arg])

\* line 548
selected_items ==
    LET Ticked(o) == cb_var[o] IN SelectSeq(CatalogOrder, Ticked)

\* line 487: the guard of handle_action_button
Busy_CleanOnly == is_cleaning

Busy == is_scanning \/ is_cleaning

uHist == <<u_faults, u_toggles>>
scanCall == <<p_pc, p_cb, p_i, p_log, p_results>>
cleanWorker == <<w_clean, t_items, t_total, t_done>>

\* lines 496-508
start_scan ==
    IF is_scanning
    THEN UNCHANGED vars
    ELSE /\ is_scanning' = TRUE
         /\ scan_results' = <<>>
         /\ action_button' = Button("disabled", "Scanning...")
         /\ uninstaller_button' = "disabled"
         /\ cb_widget' = [o \in Categories |-> [cb_widget[o] EXCEPT !.text = <<"Scanning...">>]]
         /\ cb_var' = [o \in Categories |-> FALSE]
         /\ w_scan' = "running"
         /\ p_pc' = (IF total_locations > 0 THEN "notify" ELSE "final")
         /\ p_cb' = TRUE /\ p_i' = 0 /\ p_log' = <<>> /\ p_results' = <<>>
         /\ UNCHANGED <<is_cleaning, status_label, tk_queue, cleanWorker, uHist, p_fault,
                        notAll>>

\* lines 546-558
start_clean ==
    IF selected_items = <<>>
    THEN UNCHANGED vars
    ELSE /\ is_cleaning' = TRUE
         /\ action_button' = Button("disabled", "Cleaning...")
         /\ uninstaller_button' = "disabled"
         /\ tk_queue' = Schedule("status", <<"Cleaning selected items...">>)
         /\ w_clean' = "loop"
         /\ t_items' = selected_items /\ t_total' = <<0, 0>> /\ t_done' = <<>>
         /\ UNCHANGED <<is_scanning, scan_results, cb_var, cb_widget, status_label, w_scan,
                        uHist, allVars, notAll>>

\* lines 485-490: a click on the action button
handle_action_button ==
    IF Busy THEN UNCHANGED vars
    ELSE IF scan_results # <<>> THEN start_clean ELSE start_scan

\* a click on a checkbox that is enabled
Toggle ==
    \E o \in Categories :
        /\ u_toggles < MaxToggles
        /\ cb_widget[o].state = "normal"
        /\ cb_var' = [cb_var EXCEPT ![o] = ~@]
        /\ u_toggles' = u_toggles + 1
        /\ UNCHANGED <<is_scanning, is_cleaning, scan_results, cb_widget, status_label,
                       action_button, uninstaller_button, tk_queue, w_scan, cleanWorker,
                       u_faults, allVars, notAll>>

uiRest == <<is_scanning, is_cleaning, scan_results, cb_var, cb_widget, status_label,
            action_button, uninstaller_button, cleanWorker, uHist>>

\* line 513: the callback is lambda p, m: self.update_status(m) (lines 492-494)
ScanNotify ==
    /\ w_scan = "running"
    /\ NotifyStep
    /\ tk_queue' = Schedule("status", <<"Scanning: ", CatalogOrder[p_i + 1]>>)
    /\ UNCHANGED <<uiRest, w_scan>>

ScanFinal ==
    /\ w_scan = "running"
    /\ ReturnStep
    /\ tk_queue' = Schedule("status", <<"Scan complete!">>)
    /\ UNCHANGED <<uiRest, w_scan>>

\* line 513: the assignment to self.scan_results
ScanThreadAssign ==
    /\ w_scan = "running" /\ p_pc = "done"
    /\ scan_results' = p_results
    /\ w_scan' = "assigned"
    /\ UNCHANGED <<is_scanning, is_cleaning, cb_var, cb_widget, status_label, action_button,
                   uninstaller_button, tk_queue, cleanWorker, uHist, allVars, notAll>>

\* line 514; the thread ends
ScanThreadPost ==
    /\ w_scan = "assigned"
    /\ tk_queue' = Schedule("scan_complete", <<>>)
    /\ w_scan' = "none"
    /\ p_pc' = "idle"
    /\ UNCHANGED <<uiRest, p_cb, p_i, p_log, p_results, p_fault, notAll>>

\* lines 515-516; the thread ends
ScanThreadExcept ==
    /\ w_scan = "running" /\ p_pc = "raised"
    /\ tk_queue' = Schedule("scan_error", <<"unexpected">>)
    /\ w_scan' = "none"
    /\ p_pc' = "idle"
    /\ UNCHANGED <<uiRest, p_cb, p_i, p_log, p_results, p_fault, notAll>>

uiMain == <<is_scanning, is_cleaning, scan_results, cb_var, cb_widget, status_label,
            action_button, uninstaller_button, w_scan, uHist>>

\* lines 564-566: the next item; clean_location is called, or an exception
\* that is no OSError leaves it and is caught at lines 572-573
CleanItemStart ==
    /\ w_clean = "loop" /\ t_items # <<>>
    /\ LET item == Head(t_items)
           told == Schedule("status", <<"Cleaning: ", item>>)
       IN  IF item = p_fault
           THEN /\ tk_queue' = Append(told, [fn |-> "clean_error", arg |-> <<"unexpected">>])
                /\ w_clean' = "none"
                /\ p_fault' = "none"
                /\ UNCHANGED locVars
           ELSE /\ tk_queue' = told
                /\ w_clean' = "call"
                /\ l_paths' = temp_locations[item]
                /\ l_pc' = "loop" /\ l_i' = 1 /\ l_mode' = "none" /\ l_pending' = {}
                /\ l_acc' = <<0, 0>> /\ l_total' = <<0, 0>> /\ l_ret' = <<0, 0>>
                /\ UNCHANGED p_fault
    /\ UNCHANGED <<uiMain, t_items, t_total, t_done, scanCall, fsVars, reg, scanVars,
                   cleanVars, regHist, appVars, catVars>>

\* lines 566-569: clean_location has returned
CleanItemEnd ==
    /\ w_clean = "call" /\ l_pc = "done"
    /\ t_total' = <<t_total[1] + l_ret[1], t_total[2] + l_ret[2]>>
    /\ t_done' = Append(t_done, Head(t_items))
    /\ t_items' = Tail(t_items)
    /\ w_clean' = "loop"
    /\ l_pc' = "idle"
    /\ UNCHANGED <<uiMain, tk_queue, allVars, fsVars, reg, scanVars, cleanVars, regHist,
                   appVars, catVars, l_paths, l_i, l_mode, l_pending, l_acc, l_total, l_ret>>

\* line 571; the thread ends
CleanThreadPost ==
    /\ w_clean = "loop" /\ t_items = <<>>
    /\ tk_queue' = Schedule("clean_complete", t_total)
    /\ w_clean' = "none"
    /\ UNCHANGED <<uiMain, t_items, t_total, t_done, allVars, notAll>>

\* the processing of the category a worker has reached is going to raise an
\* exception that is no OSError (RecursionError, MemoryError, ...)
Unexpected ==
    /\ u_faults < MaxFaults /\ p_fault = "none"
    /\ \/ w_scan = "running" /\ p_pc = "scan" /\ p_fault' = CatalogOrder[p_i + 1]
       \/ w_clean = "loop" /\ t_items # <<>> /\ p_fault' = Head(t_items)
    /\ u_faults' = u_faults + 1
    /\ UNCHANGED <<is_scanning, is_cleaning, scan_results, cb_var, cb_widget, status_label,
                   action_button, uninstaller_button, tk_queue, w_scan, cleanWorker,
                   u_toggles, scanCall, notAll>>

\* line 523: self.scan_results.get(option, {"count": 0, "size_mb": 0})
ResultFor(o) ==
    IF o \in DOMAIN scan_results THEN scan_results[o] ELSE ResultOf(<<0, 0>>)

RECURSIVE SumCounts(_)
SumCounts(S) ==
    IF S = {} THEN 0
    ELSE LET o == CHOOSE x \in S : TRUE IN ResultFor(o).count + SumCounts(S \ {o})

\* lines 518-537
scan_complete ==
    /\ is_scanning' = FALSE
    /\ cb_widget' = [o \in Categories |->
          IF ResultFor(o).count > 0
          THEN [state |-> "normal", text |-> <<"files", ResultFor(o).count>>]
          ELSE [state |-> "disabled", text |-> <<"Empty">>]]
    /\ cb_var' = [o \in Categories |-> IF ResultFor(o).count > 0 THEN TRUE ELSE cb_var[o]]
    /\ status_label' = <<"Found", SumCounts(Categories)>>
    /\ action_button' = IF SumCounts(Categories) = 0
                        THEN Button("disabled", "Nothing to Clean")
                        ELSE Button("normal", "Clean Selected")
    /\ uninstaller_button' = "normal"
    /\ UNCHANGED <<is_cleaning, scan_results>>

\* lines 539-544
scan_error(error) ==
    /\ is_scanning' = FALSE
    /\ status_label' = <<"Scan failed: ">> \o error
    /\ action_button' = Button("normal", "Scan Again")
    /\ uninstaller_button' = "normal"
    /\ UNCHANGED <<is_cleaning, scan_results, cb_var, cb_widget>>

\* lines 575-586
clean_complete(total) ==
    /\ is_cleaning' = FALSE
    /\ status_label' = <<"Success! Cleaned", total[1], total[2]>>
    /\ action_button' = Button("normal", "Scan Again")
    /\ uninstaller_button' = "normal"
    /\ scan_results' = <<>>
    /\ cb_widget' = [o \in Categories |-> [state |-> "disabled", text |-> <<>>]]
    /\ cb_var' = [o \in Categories |-> FALSE]
    /\ UNCHANGED is_scanning

\* lines 588-594
clean_error(error) ==
    /\ is_cleaning' = FALSE
    /\ status_label' = <<"Cleaning failed: ">> \o error
    /\ action_button' = Button("normal", "Clean Selected")
    /\ uninstaller_button' = "normal"
    /\ UNCHANGED <<is_scanning, scan_results, cb_var, cb_widget>>

\* the main loop runs the callback scheduled first
Dispatch ==
    /\ tk_queue # <<>>
    /\ tk_queue' = Tail(tk_queue)
    /\ LET ev == Head(tk_queue) IN
       CASE ev.fn = "status" ->
              /\ status_label' = ev.arg
              /\ UNCHANGED <<is_scanning, is_cleaning, scan_results, cb_var, cb_widget,
                             action_button, uninstaller_button>>
         [] ev.fn = "scan_complete" -> scan_complete
         [] ev.fn = "scan_error" -> scan_error(ev.arg)
         [] ev.fn = "clean_complete" -> clean_complete(ev.arg)
         [] ev.fn = "clean_error" -> clean_error(ev.arg)
    /\ UNCHANGED <<w_scan, cleanWorker, uHist, allVars, notAll>>

\* the paths the application works on
GuiScope == {T, Ta}

\* lines 336-353: the constructor ends with start_scan()
InitGui ==
    /\ fs \in FileSystems(GuiScope)
    /\ denied = {} /\ ext = 0
    /\ fs0 = fs /\ denied0 = {} /\ touched = {}
    /\ reg \in {NoKey, OneCommand}
    /\ r_calls = 0 /\ r_prev = reg /\ r_ret = <<0, 0>> /\ r_raised = FALSE
    /\ uninst = <<NoUninstall, NoUninstall>> /\ a_pc = "idle" /\ a_ret = <<>>
    /\ k_pc = "idle" /\ k_paths = <<>> /\ k_ret = <<0, 0>>
    /\ ScanIdle /\ CleanIdle
    /\ p_pc = (IF total_locations > 0 THEN "notify" ELSE "final")
    /\ p_cb = TRUE /\ p_i = 0 /\ p_log = <<>> /\ p_results = <<>> /\ p_fault = "none"
    /\ is_scanning = TRUE /\ is_cleaning = FALSE /\ scan_results = <<>>
    /\ cb_var = [o \in Categories |-> FALSE]
    /\ cb_widget = [o \in Categories |-> [state |-> "normal", text |-> <<"Scanning...">>]]
    /\ status_label = <<"Initializing scan...">>
    /\ action_button = Button("disabled", "Scanning...")
    /\ uninstaller_button = "disabled"
    /\ tk_queue = <<>> /\ w_scan = "running" /\ w_clean = "none"
    /\ t_items = <<>> /\ t_total = <<0, 0>> /\ t_done = <<>> /\ u_faults = 0
    /\ u_toggles = 0
    /\ frame = "cleaner" /\ is_populating_apps = FALSE /\ back_button = "normal"
    /\ apps_frame = <<>> /\ w_apps = "none"

NextGui ==
    \/ handle_action_button \/ Toggle \/ Dispatch
    \/ ScanNotify \/ AllScan \/ ScanFinal
    \/ ScanThreadAssign \/ ScanThreadPost \/ ScanThreadExcept
    \/ CleanItemStart \/ CleanItemEnd \/ CleanThreadPost
    \/ LocDispatch \/ LocTarget \/ LocCollect \/ LocSum \/ LocReturn
    \/ CleanExists \/ CleanMeasure \/ CleanDelete \/ CleanRemeasure
    \/ Unexpected

SpecGui == InitGui /\ [][NextGui]_vars

----------------------------------------------------------------------------
(* SysCleanXApp: the uninstaller frame                                     *)

notApps == <<fsVars, reg, scanVars, cleanVars, locVars, regHist, catVars, allVars,
             is_scanning, is_cleaning, scan_results, cb_var, cb_widget, status_label,
             action_button, uninstaller_button, w_scan, cleanWorker, uHist>>

\* lines 441-456
start_populating_apps ==
    IF is_populating_apps
    THEN UNCHANGED <<is_populating_apps, apps_frame, back_button, w_apps, a_pc>>
    ELSE /\ is_populating_apps' = TRUE
         /\ apps_frame' = <<"Loading applications...">>
         /\ back_button' = "disabled"
         /\ w_apps' = "running"
         /\ a_pc' = "call"

\* lines 372-377: a click on "App Uninstaller"
show_uninstaller_frame ==
    /\ frame = "cleaner" /\ uninstaller_button = "normal"
    /\ frame' = "uninstaller"
    /\ start_populating_apps
    /\ UNCHANGED <<uninst, a_ret, tk_queue, notApps>>

\* lines 366-370: a click on "Back to Cleaner"
show_cleaner_frame ==
    /\ frame = "uninstaller" /\ back_button = "normal"
    /\ frame' = "cleaner"
    /\ UNCHANGED <<is_populating_apps, back_button, apps_frame, w_apps, uninst, a_pc, a_ret,
                   tk_queue, notApps>>

\* line 459: the worker calls get_installed_apps
AppsWorkerCall == w_apps = "running" /\ GetInstalledApps

\* line 461: the worker schedules update_apps_list and ends
AppsWorkerPost ==
    /\ w_apps = "running" /\ a_pc = "done"
    /\ tk_queue' = Schedule("update_apps_list", a_ret)
    /\ w_apps' = "none"
    /\ a_pc' = "idle"
    /\ UNCHANGED <<frame, is_populating_apps, back_button, apps_frame, uninst, a_ret, notApps>>

\* line 459: apps_thread_worker has no handler; an exception that leaves
\* get_installed_apps ends the thread before line 461
AppsWorkerDies ==
    /\ w_apps = "running" /\ a_pc = "raised"
    /\ w_apps' = "none"
    /\ a_pc' = "idle"
    /\ UNCHANGED <<frame, is_populating_apps, back_button, apps_frame, uninst, a_ret,
                   tk_queue, notApps>>

\* lines 463-483, run by the main loop
update_apps_list ==
    /\ tk_queue # <<>> /\ Head(tk_queue).fn = "update_apps_list"
    /\ tk_queue' = Tail(tk_queue)
    /\ apps_frame' = IF Head(tk_queue).arg = <<>>
                     THEN <<"Could not retrieve installed applications.">>
                     ELSE Head(tk_queue).arg
    /\ back_button' = "normal"
    /\ is_populating_apps' = FALSE
    /\ UNCHANGED <<frame, w_apps, uninst, a_pc, a_ret, notApps>>

\* the first scan found nothing but the nominal registry entry, and the
\* cleaner frame is shown
InitUninstaller ==
    /\ uninst \in UninstallKeys(MaxSubkeys) \X UninstallKeys(1)
    /\ a_pc = "idle" /\ a_ret = <<>>
    /\ frame = "cleaner" /\ is_populating_apps = FALSE /\ back_button = "normal"
    /\ apps_frame = <<>> /\ w_apps = "none"
    /\ reg = NoKey
    /\ r_calls = 0 /\ r_prev = NoKey /\ r_ret = <<0, 0>> /\ r_raised = FALSE
    /\ k_pc = "idle" /\ k_paths = <<>> /\ k_ret = <<0, 0>>
    /\ FsIdle /\ ScanIdle /\ CleanIdle /\ AllIdle
    /\ is_scanning = FALSE /\ is_cleaning = FALSE
    /\ scan_results = [o \in Categories |->
                         ResultOf(scan_location_size(NoFiles, {}, temp_locations[o]))]
    /\ cb_var = [o \in Categories |-> scan_results[o].count > 0]
    /\ cb_widget = [o \in Categories |->
          IF scan_results[o].count > 0
          THEN [state |-> "normal", text |-> <<"files", scan_results[o].count>>]
          ELSE [state |-> "disabled", text |-> <<"Empty">>]]
    /\ status_label = <<"Found", SumCounts(Categories)>>
    /\ action_button = Button("normal", "Clean Selected")
    /\ uninstaller_button = "normal"
    /\ tk_queue = <<>> /\ w_scan = "none" /\ w_clean = "none"
    /\ t_items = <<>> /\ t_total = <<0, 0>> /\ t_done = <<>>
    /\ u_faults = 0 /\ u_toggles = 0

NextUninstaller ==
    \/ show_uninstaller_frame \/ show_cleaner_frame
    \/ AppsWorkerCall \/ AppsWorkerPost \/ AppsWorkerDies
    \/ update_apps_list

\* a started thread runs, and the main loop runs what root.after scheduled
SpecUninstaller ==
    /\ InitUninstaller /\ [][NextUninstaller]_vars
    /\ WF_vars(AppsWorkerCall) /\ WF_vars(AppsWorkerPost) /\ WF_vars(AppsWorkerDies)
    /\ WF_vars(update_apps_list)

----------------------------------------------------------------------------
(* Properties of measure(path) = scan_directory_safely                     *)

\* the regular files of the tree below p, at any depth
RegularFilesUnder(f, p) == {q \in Paths : IsUnder(q, p) /\ f[q].kind = "file"}

LinksUnder(f, p) == {q \in Paths : IsUnder(q, p) /\ f[q].kind = "link"}

\* the regular files of the tree that can be reached and read
AccessibleFiles(f, d, p) ==
    IF f[p].kind = "file"
    THEN {p} \ d
    ELSE {q \in RegularFilesUnder(f, p) :
             \A r \in Paths : (Within(q, r) /\ Within(r, p)) => r \notin d}

\* the files that stayed as they were, and readable, for the whole call
Stable == AccessibleFiles(fs0, denied0, s_path) \ touched

\* C3: for a directory tree of k regular files totalling S bytes and m symbolic
\* links, read without access failure and without interference, measure returns
\* exactly <<S, k>>: links add nothing, files of subdirectories are included
C3_MeasureCountsRegularFiles ==
    (s_pc = "done" /\ fs0[s_path].kind = "dir" /\ denied0 = {} /\ touched = {})
        => /\ s_ret = <<SumSize(fs0, RegularFilesUnder(fs0, s_path)),
                        Cardinality(RegularFilesUnder(fs0, s_path))>>
           /\ s_ret = scan_directory_safely(fs0, denied0, s_path)

\* two files of one byte, one of them in the subdirectory, and a link to a file
C3_Witness ==
    /\ s_pc = "done" /\ denied0 = {} /\ touched = {}
    /\ fs0[Ta] = File(1) /\ fs0[Tc] = File(1)
    /\ fs0[Tb] = Link("file")
    /\ s_ret = <<2, 2>>

\* C4: measure never raises; a path that does not exist, or whose access fails,
\* yields <<0, 0>>; a file that fails or vanishes is skipped and every other
\* accessible regular file is still counted
C4_MeasureNeverRaises ==
    /\ s_pc # "raised"
    /\ s_pc = "done" =>
          /\ (~exists(fs0, denied0, s_path) /\ s_path \notin touched) => s_ret = <<0, 0>>
          /\ Stable \subseteq s_counted
          /\ s_ret[2] = Cardinality(s_counted)
          /\ s_ret[1] >= SumSize(fs0, Stable)

\* a file of the tree vanished or became unreadable during the traversal and was
\* skipped, and another file was counted
C4_Witness ==
    /\ s_pc = "done"
    /\ \E q \in touched : fs0[q].kind = "file" /\ q \notin s_counted /\ fs[q] = Absent
    /\ Stable # {} /\ s_ret[2] >= 1

----------------------------------------------------------------------------
(* Properties of reclaim(path) = clean_directory_safely                    *)

\* C1: neither field of a clean result is ever negative, whatever other
\* processes do between the two measurements and the deletion; the same holds
\* for the sums of clean_location
C1_CleanNeverNegative ==
    /\ c_ret[1] >= 0 /\ c_ret[2] >= 0
    /\ l_acc[1] >= 0 /\ l_acc[2] >= 0
    /\ l_total[1] >= 0 /\ l_total[2] >= 0
    /\ l_ret[1] >= 0 /\ l_ret[2] >= 0

\* the measurement after the deletion exceeded the one before it
C1_Witness ==
    /\ c_pc = "done" /\ c_attempted
    /\ c_final[1] > c_initial[1] /\ c_final[2] > c_initial[2]
    /\ c_ret = <<0, 0>>

\* the measurement of the target when the call began
MeasuredBefore == scan_directory_safely(fs0, denied0, c_path)

\* C2: for a directory whose deletion fully succeeds and that nothing else
\* mutates during the call, measure(dir) is <<0, 0>> afterwards and the result
\* carries the values measured before (file count, bytes)
C2_ReclaimReturnsMeasured ==
    (/\ c_pc = "done" /\ fs0[c_path].kind = "dir" /\ touched = {}
     /\ c_attempted /\ c_keep = {})
        => /\ scan_directory_safely(fs, denied, c_path) = <<0, 0>>
           /\ \A q \in Paths : Within(q, c_path) => fs[q] = Absent
           /\ c_ret = <<MeasuredBefore[2], MeasuredBefore[1]>>
           /\ denied0 = {} =>
                 c_ret = <<Cardinality(RegularFilesUnder(fs0, c_path)),
                           SumSize(fs0, RegularFilesUnder(fs0, c_path))>>

\* a directory with a file and a subdirectory with a file has been removed
C2_Witness ==
    /\ c_pc = "done" /\ c_path = T /\ touched = {} /\ c_keep = {} /\ c_attempted
    /\ fs0[Tb] = File(1) /\ fs0[Tc] = File(1)
    /\ fs[T] = Absent
    /\ c_ret = <<2, 2>>

\* C5: when measure(p) is <<0, 0>> before the call (p absent, an empty directory,
\* a directory holding only symbolic links), reclaim(p) returns <<0, 0>>, attempts
\* no deletion and leaves the file system as it was
C5_ZeroCaseChangesNothing ==
    (c_pc = "done" /\ touched = {} /\ MeasuredBefore = <<0, 0>>)
        => /\ c_ret = <<0, 0>>
           /\ ~c_attempted
           /\ fs = fs0

\* a directory that holds only a symbolic link has been left alone
C5_Witness ==
    /\ c_pc = "done" /\ c_path = T /\ touched = {}
    /\ fs0[T] = Dir /\ fs0[Tb] = Link("file") /\ fs0[Ts] = Absent
    /\ c_ret = <<0, 0>> /\ fs = fs0

----------------------------------------------------------------------------
(* Properties of clearRunHistory = clear_run_history                       *)

\* every access the call makes to the key is granted
Accessible(r) ==
    /\ r.present /\ r.access /\ r.hasList /\ ~r.listLocked
    /\ Range(r.list) \cap r.locked = {}

\* C6: on an accessible key whose MRUList names n stored values (n >= 0, a
\* second call on the emptied list included) the call deletes every named value,
\* leaves MRUList empty and returns <<1, 1024>> whatever n is; a named value that
\* is missing is skipped
C6_ClearRunHistoryResets ==
    (r_calls >= 1 /\ Accessible(r_prev))
        => /\ ~r_raised
           /\ r_ret = <<1, 1024>>
           /\ reg.values = r_prev.values \ Range(r_prev.list)
           /\ reg.hasList /\ reg.list = <<>>

\* a call on a list of three names, two of them stored and one missing
C6_Witness ==
    /\ r_calls = 1 /\ Accessible(r_prev)
    /\ Len(r_prev.list) = 3
    /\ Cardinality(Range(r_prev.list) \cap r_prev.values) = 2
    /\ Cardinality(Range(r_prev.list) \ r_prev.values) = 1
    /\ r_ret = <<1, 1024>> /\ reg.list = <<>>
    /\ Range(r_prev.list) \cap reg.values = {}

\* some access of the call is refused or finds nothing
Fails(r) ==
    \/ ~r.present \/ ~r.access \/ ~r.hasList \/ r.listLocked
    \/ Range(r.list) \cap r.locked # {}

\* C7: the call never propagates a failure; on any failure it returns <<0, 0>>,
\* and it returns <<1, 1024>> only when every listed value is gone and MRUList
\* has been reset to empty
C7_ClearRunHistoryNeverRaises ==
    /\ ~r_raised
    /\ r_calls >= 1 =>
          /\ r_ret \in {<<0, 0>>, <<1, 1024>>}
          /\ Fails(r_prev) => r_ret = <<0, 0>>
          /\ r_ret = <<1, 1024>> =>
                /\ Range(r_prev.list) \cap reg.values = {}
                /\ reg.hasList /\ reg.list = <<>>

\* the deletion of a listed value was refused after another one had been deleted
C7_Witness ==
    /\ r_calls = 1 /\ r_ret = <<0, 0>>
    /\ Range(r_prev.list) \cap r_prev.locked # {}
    /\ reg.values # r_prev.values
    /\ reg.list = r_prev.list

----------------------------------------------------------------------------
(* Properties of listInstalledApplications = get_installed_apps            *)

\* the subkeys of the roots whose Uninstall key can be opened
Opened(i) == IF uninst[i].present /\ uninst[i].access THEN uninst[i].subkeys ELSE <<>>

\* a subkey that can be read and has a non-empty name and a non-empty command
Valid(e) == e.readable /\ e.hasName /\ e.hasCmd /\ e.name # 0 /\ e.cmd # 0

\* how many valid subkeys of root i carry this name and command
ValidCount(i, n, c) ==
    Cardinality({j \in DOMAIN Opened(i) :
        Valid(Opened(i)[j]) /\ Opened(i)[j].name = n /\ Opened(i)[j].cmd = c})

\* C8: the call never propagates a failure: whatever fails on one root (subtree
\* absent, access denied on opening it, an unreadable child) that root or entry
\* is skipped, the other root is enumerated in full and a list is returned
C8_AppsNeverRaises ==
    /\ a_pc # "raised"
    /\ a_pc = "done" =>
          \A i \in {1, 2}, n \in {1, 2}, c \in {1} :
              Cardinality({j \in DOMAIN a_ret : a_ret[j] = [name |-> n, command |-> c]})
                  >= ValidCount(i, n, c)

\* C9: the returned list holds exactly one entry per readable subkey, over both
\* roots, with a non-empty name and a non-empty command, none for a subkey that
\* lacks either, keeps equal names of the two roots apart, and is sorted by name
C9_AppsListed ==
    a_pc = "done" =>
        /\ \A n \in {0, 1, 2}, c \in {0, 1} :
              Cardinality({j \in DOMAIN a_ret : a_ret[j] = [name |-> n, command |-> c]})
                  = ValidCount(1, n, c) + ValidCount(2, n, c)
        /\ \A j \in DOMAIN a_ret : a_ret[j] \in [name : {1, 2}, command : {1}]
        /\ \A i, j \in DOMAIN a_ret : i < j => a_ret[i].name <= a_ret[j].name

\* HKEY_CURRENT_USER holds B and a subkey without command, HKEY_LOCAL_MACHINE
\* holds A: the list is A, B
C9_Witness ==
    /\ a_pc = "done"
    /\ Len(uninst[1].subkeys) = 2 /\ Len(uninst[2].subkeys) = 1
    /\ Valid(uninst[1].subkeys[1]) /\ uninst[1].subkeys[1].name = 2
    /\ uninst[1].subkeys[2].hasName /\ uninst[1].subkeys[2].name = 1
    /\ ~uninst[1].subkeys[2].hasCmd
    /\ Valid(uninst[2].subkeys[1]) /\ uninst[2].subkeys[1].name = 1
    /\ Len(a_ret) = 2 /\ a_ret[1].name = 1 /\ a_ret[2].name = 2

----------------------------------------------------------------------------
(* Properties of scanCategory = scan_location_size                         *)

\* measure(m) of a readable target, from the files it holds
Measure(f, m) ==
    IF f[m].kind = "file" THEN <<f[m].size, 1>>
    ELSE <<SumSize(f, RegularFilesUnder(f, m)), Cardinality(RegularFilesUnder(f, m))>>

\* the regular files below the cache directory of some profile of root p
CacheFiles(f, p) ==
    {q \in Paths : f[q].kind = "file" /\
        \E c \in Children(p) : IsUnder(q, Append(c, "cache2"))}

\* the existing paths a pattern names
Matches(f, pat) ==
    IF pat = <<"E", "t_*">> THEN {m \in {E1, E2} : f[m] # Absent}
    ELSE {m \in {pat} \cap Paths : f[m] # Absent}

RECURSIVE SumMeasure(_, _)
SumMeasure(f, S) ==
    IF S = {} THEN <<0, 0>>
    ELSE LET m == CHOOSE x \in S : TRUE IN
         <<Measure(f, m)[1] + SumMeasure(f, S \ {m})[1],
           Measure(f, m)[2] + SumMeasure(f, S \ {m})[2]>>

\* what one PathSpec contributes
Contribution(f, pat) ==
    IF pat = REGISTRY_CLEANUP THEN <<1024, 1>>
    ELSE IF pat = Fr THEN <<SumSize(f, CacheFiles(f, pat)), Cardinality(CacheFiles(f, pat))>>
    ELSE SumMeasure(f, Matches(f, pat))

RECURSIVE SumContributions(_, _)
SumContributions(f, paths) ==
    IF paths = <<>> THEN <<0, 0>>
    ELSE <<Contribution(f, Head(paths))[1] + SumContributions(f, Tail(paths))[1],
           Contribution(f, Head(paths))[2] + SumContributions(f, Tail(paths))[2]>>

\* C10: scanCategory is the sum of the contributions of the PathSpecs, each on
\* its own: <<1024, 1>> for the registry sentinel whatever the registry holds,
\* the cache directories of the profiles for a profile root, the measures of the
\* matches for any other pattern, nothing for a pattern without match; neither
\* the file system nor the registry is touched
C10_ScanCategoryIsSum ==
    k_pc = "done" =>
        /\ k_ret = SumContributions(fs, k_paths)
        /\ fs = fs0 /\ reg = r_prev

\* a plain directory with one file, two profiles with one cached file each and
\* a file outside the cache
C10_Witness ==
    /\ k_pc = "done" /\ k_paths = <<T, Fr>>
    /\ fs[Ta] = File(1) /\ fs[Tb] = Absent /\ fs[Ts] = Absent
    /\ fs[Fx] = File(1) /\ fs[Fy] = File(1) /\ fs[Fo] = File(1)
    /\ k_ret = <<3, 3>>

----------------------------------------------------------------------------
(* Properties of the scan of a browser-profile root                        *)

\* the regular files in the cache subdirectory of a profile, when the root and
\* that subdirectory can be read
CountedCacheFiles ==
    IF fs[Mr].kind = "dir" /\ Mr \notin denied
    THEN {q \in MCacheFiles : fs[q].kind = "file" /\ Parent(q) \notin denied}
    ELSE {}

\* C11: the scan of a profiles root is the sum, over the profiles that have a
\* cache2 subdirectory, of the measure of that subdirectory; an absent root and
\* a profile without cache2 add nothing, without error, and a file of a
\* profile outside cache2 is not counted
C11_ProfileRootSumsCaches ==
    k_pc = "done" =>
        /\ k_ret = <<SumSize(fs, CountedCacheFiles), Cardinality(CountedCacheFiles)>>
        /\ fs[Mr] = Absent => k_ret = <<0, 0>>
        /\ \A c \in {M1c, M2c, M3c} :
              (fs[c] = Absent /\ fs[Parent(c)] = Dir /\ denied = {}) =>
                  k_ret = <<SumSize(fs, {q \in MCacheFiles : fs[q].kind = "file"}),
                            Cardinality({q \in MCacheFiles : fs[q].kind = "file"})>>
        /\ fs = fs0

\* three profiles, each with files of 10 and 20 bytes in cache2, and a file
\* outside the cache: 90 bytes in 6 files
C11_Witness ==
    /\ k_pc = "done" /\ k_paths = <<Mr>> /\ denied = {}
    /\ \A q \in {M1a, M2a, M3a} : fs[q] = File(10)
    /\ \A q \in {M1b, M2b, M3b} : fs[q] = File(20)
    /\ fs[M1o] = File(1)
    /\ k_ret = <<90, 6>>

----------------------------------------------------------------------------
(* Properties of scan_all_locations                                        *)

\* a / b < c / d for positive denominators
Less(x, y) == x.num * y.den < y.num * x.den

\* the notification that precedes the category of index i (0-based)
Before(i) ==
    [fraction |-> [num |-> i, den |-> Len(CatalogOrder)],
     text |-> <<"Scanning: ", CatalogOrder[i + 1]>>]

\* C12: with a callback, progress is notified once before each category is
\* processed, in catalog order, with fraction i/total (0-based, strictly
\* increasing, in [0, 1)) and the label of the category, and once more after
\* the last category with fraction 1.0; the results do not depend on whether
\* a callback was supplied
C12_ProgressNotifications ==
    /\ p_pc \in {"notify", "scan", "final", "done"} =>
          LET begun == IF p_pc = "scan" THEN p_i + 1 ELSE p_i
              ended == IF p_pc = "done" THEN 1 ELSE 0
          IN  /\ p_cb => Len(p_log) = begun + ended
              /\ ~p_cb => p_log = <<>>
              /\ \A j \in 1..Len(p_log) :
                    IF j <= begun
                    THEN /\ p_log[j] = Before(j - 1)
                         /\ p_log[j].fraction.num >= 0
                         /\ Less(p_log[j].fraction, [num |-> 1, den |-> 1])
                         /\ j > 1 => Less(p_log[j - 1].fraction, p_log[j].fraction)
                    ELSE p_log[j] = [fraction |-> [num |-> 1, den |-> 1],
                                     text |-> <<"Scan complete!">>]
              /\ DOMAIN p_results = {CatalogOrder[j] : j \in 1..p_i}
    /\ p_pc = "done" =>
          /\ p_i = Len(CatalogOrder)
          /\ \A n \in DOMAIN temp_locations :
                /\ p_results[n].size = SumContributions(fs, temp_locations[n])[1]
                /\ p_results[n].count = SumContributions(fs, temp_locations[n])[2]

\* a pass with a callback has ended: five notifications, and the first
\* category holds one file counted twice
C12_Witness ==
    /\ p_pc = "done" /\ p_cb /\ Len(p_log) = 5
    /\ fs[Ta] = File(1)
    /\ p_results["Clean User's Temp"].count = 2

----------------------------------------------------------------------------
(* Properties of the application: failures of a pass, scan against clean   *)

\* the last scan pass ended in scan_error
ScanFailed == ~is_scanning /\ Head(status_label) = "Scan failed: "

\* the last clean pass ended in clean_error
CleanFailed == ~is_cleaning /\ Head(status_label) = "Cleaning failed: "

\* the application shows what the scan found for category o
ScanReported(o) ==
    /\ o \in DOMAIN scan_results
    /\ scan_results[o] = p_results[o]

\* the application shows how much the clean pass removed
CleanReported ==
    /\ Head(status_label) = "Success! Cleaned"
    /\ status_label[2] = t_total[1] /\ status_label[3] = t_total[2]

\* C13: an unexpected failure in one category is surfaced as a failure, never
\* shown as an empty result, and what the pass found or removed for the
\* categories it processed without failure is still reported
C13_FailureAtCategoryBoundary ==
    /\ ScanFailed =>
          /\ \A o \in Categories : cb_widget[o].text # <<"Empty">>
          /\ \A o \in DOMAIN p_results : ScanReported(o)
    /\ (CleanFailed /\ t_done # <<>>) => CleanReported

\* C14: is_scanning and is_cleaning are never both true, at most one worker
\* thread runs, and clean_location never runs during a scan pass
C14_CleanSerializedAgainstScan ==
    /\ ~(is_scanning /\ is_cleaning)
    /\ ~(w_scan # "none" /\ w_clean # "none")
    /\ w_scan # "none" => is_scanning
    /\ w_clean # "none" => is_cleaning
    /\ l_pc \notin {"idle", "done"} => (~is_scanning /\ p_pc = "idle")

\* a clean pass deletes, after a scan pass that found a file; the action
\* button was clicked twice since the first scan
C14_Witness ==
    /\ is_cleaning /\ w_clean = "call" /\ c_pc = "remeasure"
    /\ scan_results # <<>> /\ p_pc = "idle" /\ ~is_scanning
    /\ fs0[Ta] = File(1) /\ fs[Ta] = Absent

----------------------------------------------------------------------------
(* Properties of the uninstaller frame                                     *)

\* C15: every request to list the applications completes: once
\* start_populating_apps has set is_populating_apps and disabled the back
\* button, eventually is_populating_apps is false and the back button is
\* enabled again, whatever the enumeration of the registry did
C15_PopulatingCompletes ==
    (is_populating_apps /\ back_button = "disabled")
        ~> (~is_populating_apps /\ back_button = "normal")

----------------------------------------------------------------------------
(* Properties of a clean that follows a scan                               *)

\* C16: when nothing else touches the file system or the registry, a clean
\* reports no more files and no more bytes than the scan of the same list
\* made immediately before, also when patterns of the list resolve to the
\* same target or to nested targets
C16_CleanWithinScan ==
    (l_pc = "done" /\ k_pc = "done") =>
        /\ l_ret[1] <= k_ret[2]
        /\ l_ret[2] <= k_ret[1]

\* the same directory twice: its file is scanned twice and deleted once
C16_Witness ==
    /\ l_pc = "done" /\ k_pc = "done" /\ l_paths = <<T, T>>
    /\ k_ret = <<2, 2>> /\ l_ret = <<1, 1>>

====
